---- MODULE Spec2Model ----
(***************************************************************************)
(* Spreadsheet ingestion and statistics server (main.go and its split      *)
(* variant processing.go / calculations.go / handlers).                    *)
(*                                                                         *)
(* Strings are sequences of one-character strings, so that TrimSpace,      *)
(* ToLower, HasSuffix, Sprintf and ParseFloat are computed character by    *)
(* character.  A float64 is an extended rational [n, d]: d > 0 is the      *)
(* finite value n/d in lowest terms, <<1,0>> is +Inf, <<-1,0>> is -Inf and *)
(* <<0,0>> is NaN.  Rounding is not modelled: the cells the model draws    *)
(* hold small integers and halves, on which float64 arithmetic is exact.   *)
(***************************************************************************)
EXTENDS Integers, Sequences, FiniteSets, TLC

VARIABLES lastSpreadsheet, request, response, lastAccepted, overwritten, args, ret,
          query, upload

\* lastSpreadsheet is the program's global.  request and response are the
\* request being answered and its response.  lastAccepted (the last upload
\* answered 200) and overwritten (an accepted upload has replaced another
\* table) record the history.  args and ret are the arguments and the return
\* value of a function called on its own.  query and upload are the position
\* and the locals of a calculateHandler and of a displayHandler that run at
\* the same time, each in its goroutine.
vars == <<lastSpreadsheet, request, response, lastAccepted, overwritten, args, ret,
          query, upload>>

(***************************************************************************)
(* Characters and strings                                                  *)
(***************************************************************************)

\* unicode.IsSpace on the characters the model uses.
WhiteSpace == {" ", "\t"}

Digits == {"0", "1", "2", "3", "4", "5", "6", "7", "8", "9"}

DigitVal(c) ==
    CASE c = "0" -> 0 [] c = "1" -> 1 [] c = "2" -> 2 [] c = "3" -> 3
      [] c = "4" -> 4 [] c = "5" -> 5 [] c = "6" -> 6 [] c = "7" -> 7
      [] c = "8" -> 8 [] c = "9" -> 9

DigitChar(n) ==
    CASE n = 0 -> "0" [] n = 1 -> "1" [] n = 2 -> "2" [] n = 3 -> "3"
      [] n = 4 -> "4" [] n = 5 -> "5" [] n = 6 -> "6" [] n = 7 -> "7"
      [] n = 8 -> "8" [] n = 9 -> "9"

\* unicode.ToLower on the letters the model uses; other characters map to
\* themselves.
LowerChar(c) ==
    CASE c = "A" -> "a" [] c = "C" -> "c" [] c = "E" -> "e" [] c = "F" -> "f"
      [] c = "I" -> "i" [] c = "L" -> "l" [] c = "N" -> "n" [] c = "S" -> "s"
      [] c = "T" -> "t" [] c = "V" -> "v" [] c = "X" -> "x" [] c = "Y" -> "y"
      [] OTHER -> c

ToLower(s) == [i \in 1..Len(s) |-> LowerChar(s[i])]

HasSuffix(s, suffix) ==
    /\ Len(s) >= Len(suffix)
    /\ SubSeq(s, Len(s) - Len(suffix) + 1, Len(s)) = suffix

\* strings.TrimSpace: drop leading and trailing white space.
TrimSpace(s) ==
    LET keep == {i \in 1..Len(s) : s[i] \notin WhiteSpace}
    IN  IF keep = {} THEN <<>>
        ELSE LET first == CHOOSE i \in keep : \A j \in keep : i <= j
                 last  == CHOOSE i \in keep : \A j \in keep : j <= i
             IN  SubSeq(s, first, last)

\* The %d verb of fmt.Sprintf for n >= 0.
RECURSIVE Itoa(_)
Itoa(n) == IF n < 10 THEN <<DigitChar(n)>>
           ELSE Append(Itoa(n \div 10), DigitChar(n % 10))

\* fmt.Sprintf("Column_%d", n)
ColumnName(n) == <<"C", "o", "l", "u", "m", "n", "_">> \o Itoa(n)

(***************************************************************************)
(* float64 as an extended rational                                         *)
(***************************************************************************)

Abs(x) == IF x < 0 THEN -x ELSE x

RECURSIVE Gcd(_, _)
Gcd(a, b) == IF b = 0 THEN a ELSE Gcd(b, a % b)

NaN == [n |-> 0, d |-> 0]
Inf(sign) == [n |-> sign, d |-> 0]

\* The finite value n/d (d # 0) in lowest terms with a positive denominator.
Rat(n, d) ==
    LET g == Gcd(Abs(n), Abs(d))
        s == IF d < 0 THEN -1 ELSE 1
    IN  [n |-> s * (n \div g), d |-> s * (d \div g)]

Num(n) == [n |-> n, d |-> 1]

IsNaN(x) == x.d = 0 /\ x.n = 0
IsInf(x) == x.d = 0 /\ x.n # 0
IsFinite(x) == x.d > 0

\* x > y on float64: false whenever an operand is NaN.
FGt(x, y) ==
    IF IsNaN(x) \/ IsNaN(y) THEN FALSE
    ELSE IF IsInf(x) THEN x.n = 1 /\ ~(IsInf(y) /\ y.n = 1)
    ELSE IF IsInf(y) THEN y.n = -1
    ELSE x.n * y.d > y.n * x.d

FLt(x, y) == FGt(y, x)

\* x + y on float64.
FAdd(x, y) ==
    IF IsNaN(x) \/ IsNaN(y) THEN NaN
    ELSE IF IsInf(x) THEN (IF IsInf(y) /\ y.n # x.n THEN NaN ELSE x)
    ELSE IF IsInf(y) THEN y
    ELSE Rat(x.n * y.d + y.n * x.d, x.d * y.d)

\* x / k on float64 for an integer k > 0.
FDivInt(x, k) == IF IsFinite(x) THEN Rat(x.n, x.d * k) ELSE x

(***************************************************************************)
(* strconv.ParseFloat(s, 64)                                               *)
(***************************************************************************)

RECURSIVE DigitsVal(_)
DigitsVal(s) == IF s = <<>> THEN 0
                ELSE 10 * DigitsVal(SubSeq(s, 1, Len(s) - 1)) + DigitVal(s[Len(s)])

RECURSIVE Pow10(_)
Pow10(k) == IF k = 0 THEN 1 ELSE 10 * Pow10(k - 1)

AllDigits(s) == \A i \in 1..Len(s) : s[i] \in Digits

HasSign(s) == Len(s) > 0 /\ s[1] \in {"+", "-"}
SignOf(s) == IF Len(s) > 0 /\ s[1] = "-" THEN -1 ELSE 1
Unsigned(s) == IF HasSign(s) THEN Tail(s) ELSE s

\* strconv special(): "nan" without a sign, "inf" and "infinity" with an
\* optional sign, letters compared without regard to case.
IsSpecial(s) ==
    \/ ToLower(s) = <<"n", "a", "n">>
    \/ ToLower(Unsigned(s)) \in {<<"i", "n", "f">>,
                                 <<"i", "n", "f", "i", "n", "i", "t", "y">>}

SpecialVal(s) == IF ToLower(s) = <<"n", "a", "n">> THEN NaN ELSE Inf(SignOf(s))

\* The mantissa of a decimal literal: digits with at most one point and at
\* least one digit.
IsMantissa(m) ==
    LET pts == {i \in 1..Len(m) : m[i] = "."}
    IN  /\ \A i \in 1..Len(m) : m[i] \in Digits \cup {"."}
        /\ Cardinality(pts) <= 1
        /\ Len(m) - Cardinality(pts) >= 1

\* The exponent part after the e: an optional sign and at least one digit.
IsExponent(e) == Unsigned(e) # <<>> /\ AllDigits(Unsigned(e))

\* Position of the exponent letter, 0 when there is none.
ExpPos(u) ==
    LET es == {i \in 1..Len(u) : u[i] \in {"e", "E"}}
    IN  IF es = {} THEN 0 ELSE CHOOSE i \in es : \A j \in es : i <= j

\* strconv readFloat() for base 10 (hexadecimal literals and digit-separating
\* underscores do not occur in the cells drawn here).
IsDecimal(s) ==
    LET u == Unsigned(s)
        p == ExpPos(u)
    IN  IF p = 0 THEN IsMantissa(u)
        ELSE IsMantissa(SubSeq(u, 1, p - 1)) /\ IsExponent(SubSeq(u, p + 1, Len(u)))

MantissaVal(m) ==
    LET pts  == {i \in 1..Len(m) : m[i] = "."}
        p    == IF pts = {} THEN Len(m) + 1 ELSE CHOOSE i \in pts : TRUE
        frac == SubSeq(m, p + 1, Len(m))
    IN  Rat(DigitsVal(SubSeq(m, 1, p - 1) \o frac), Pow10(Len(frac)))

DecimalVal(s) ==
    LET u   == Unsigned(s)
        p   == ExpPos(u)
        m   == MantissaVal(IF p = 0 THEN u ELSE SubSeq(u, 1, p - 1))
        e   == IF p = 0 THEN <<>> ELSE SubSeq(u, p + 1, Len(u))
        ex  == SignOf(e) * DigitsVal(Unsigned(e))
        sg  == SignOf(s)
    IN  IF ex >= 0 THEN Rat(sg * m.n * Pow10(ex), m.d)
        ELSE Rat(sg * m.n, m.d * Pow10(-ex))

\* (value, err) of strconv.ParseFloat: ok is err == nil.
ParseFloat(s) ==
    IF IsSpecial(s) THEN [ok |-> TRUE, val |-> SpecialVal(s)]
    ELSE IF IsDecimal(s) THEN [ok |-> TRUE, val |-> DecimalVal(s)]
    ELSE [ok |-> FALSE, val |-> Num(0)]

(***************************************************************************)
(* More float64 arithmetic                                                 *)
(***************************************************************************)

\* x >= y on float64: false whenever an operand is NaN.
FGe(x, y) ==
    IF IsNaN(x) \/ IsNaN(y) THEN FALSE
    ELSE IF IsInf(x) THEN x.n = 1 \/ (IsInf(y) /\ y.n = -1)
    ELSE IF IsInf(y) THEN y.n = -1
    ELSE x.n * y.d >= y.n * x.d

FNeg(x) == [n |-> -x.n, d |-> x.d]

FSub(x, y) == FAdd(x, FNeg(y))

\* x * y on float64.
FMul(x, y) ==
    IF IsNaN(x) \/ IsNaN(y) THEN NaN
    ELSE IF IsInf(x) \/ IsInf(y)
         THEN (IF x.n = 0 \/ y.n = 0 THEN NaN
               ELSE Inf(IF (x.n > 0) = (y.n > 0) THEN 1 ELSE -1))
    ELSE Rat(x.n * y.n, x.d * y.d)

\* float64(n) of an int.
Float64(n) == Num(n)

\* a / b for ints a >= 0, b > 0 converted to float64.
FQuot(a, b) == Rat(a, b)

IsSquare(n) == \E r \in 0..n : r * r = n
IntRoot(n) == CHOOSE r \in 0..n : r * r = n

\* math.Sqrt.  The root of a rational that is no square of a rational is kept
\* exact, as the radicand under a root sign.
Sqrt(x) ==
    IF IsNaN(x) \/ (IsInf(x) /\ x.n = 1) THEN x
    ELSE IF x.n < 0 THEN NaN
    ELSE IF IsSquare(x.n) /\ IsSquare(x.d) THEN Rat(IntRoot(x.n), IntRoot(x.d))
    ELSE [sqrt |-> x]

(***************************************************************************)
(* types.go: Spreadsheet                                                   *)
(***************************************************************************)

\* The zero value of Spreadsheet (UploadTime is display-only and left out).
ZeroSpreadsheet ==
    [Headers |-> <<>>, Rows |-> <<>>, NumericCols |-> <<>>,
     FileName |-> <<>>, FileSize |-> 0]

MaxFileSize == 10485760
MaxRows == 10000

(***************************************************************************)
(* Parsing: processCSV, processExcel                                       *)
(*                                                                         *)
(* A file is [kind, rows]: kind "malformed" makes csv.Reader.ReadAll or    *)
(* excelize.OpenReader fail, "nosheet" is a workbook without sheets,       *)
(* "badsheet" makes GetRows fail, and "ok" yields rows.                    *)
(***************************************************************************)

\* Variant: the placeholder numbered with the 0-based index.
CleanHeadersZeroBased(row0) ==
    [i \in 1..Len(row0) |->
        LET cleaned == TrimSpace(row0[i])
        IN  IF cleaned = <<>> THEN ColumnName(i - 1) ELSE cleaned]

\* The header loop shared by both parsers: trim, and name an empty header
\* Column_<i+1> (i counted from 0; TLA+ sequences count from 1).
CleanHeaders(row0) ==
    [i \in 1..Len(row0) |->
        LET cleaned == TrimSpace(row0[i])
        IN  IF cleaned = <<>> THEN ColumnName(i) ELSE cleaned]

processCSV(file) ==
    IF file.kind = "malformed" THEN [data |-> ZeroSpreadsheet, err |-> "read"]
    ELSE IF Len(file.rows) = 0 THEN [data |-> ZeroSpreadsheet, err |-> "empty"]
    ELSE [data |-> [ZeroSpreadsheet EXCEPT !.Headers = CleanHeaders(file.rows[1]),
                                           !.Rows = Tail(file.rows)],
          err |-> "nil"]

processExcel(file) ==
    IF file.kind = "malformed" THEN [data |-> ZeroSpreadsheet, err |-> "open"]
    ELSE IF file.kind = "nosheet" THEN [data |-> ZeroSpreadsheet, err |-> "nosheets"]
    ELSE IF file.kind = "badsheet" THEN [data |-> ZeroSpreadsheet, err |-> "rows"]
    ELSE IF Len(file.rows) = 0 THEN [data |-> ZeroSpreadsheet, err |-> "empty"]
    ELSE [data |-> [ZeroSpreadsheet EXCEPT !.Headers = CleanHeaders(file.rows[1]),
                                           !.Rows = Tail(file.rows)],
          err |-> "nil"]

(***************************************************************************)
(* Classification: isColumnNumeric, detectNumericColumns                   *)
(* Column indices are 0-based as in the source.                            *)
(***************************************************************************)

\* The rows the loop of isColumnNumeric counts in totalCount.
CountedRows(data, colIndex) ==
    {i \in 1..Len(data.Rows) :
        /\ ~(colIndex >= Len(data.Rows[i]))
        /\ TrimSpace(data.Rows[i][colIndex + 1]) # <<>>}

\* The rows the loop of isColumnNumeric counts in numericCount.
NumericRows(data, colIndex) ==
    {i \in CountedRows(data, colIndex) :
        ParseFloat(TrimSpace(data.Rows[i][colIndex + 1])).ok}

\* Variant: the threshold taken as more than 80%.
isColumnNumericStrict(data, colIndex) ==
    LET numericCount == Cardinality(NumericRows(data, colIndex))
        totalCount   == Cardinality(CountedRows(data, colIndex))
    IN  IF totalCount = 0 THEN FALSE
        ELSE FGt(FQuot(numericCount, totalCount), Rat(8, 10))

isColumnNumeric(data, colIndex) ==
    LET numericCount == Cardinality(NumericRows(data, colIndex))
        totalCount   == Cardinality(CountedRows(data, colIndex))
    IN  IF totalCount = 0 THEN FALSE
        ELSE FGe(FQuot(numericCount, totalCount), Rat(8, 10))

\* Variant: the loop ranges over the columns of the first row, not over
\* data.Headers.
detectNumericColumnsOfRow(data) ==
    LET width == IF Len(data.Rows) = 0 THEN Len(data.Headers) ELSE Len(data.Rows[1])
        RECURSIVE Loop(_, _)
        Loop(col, numericCols) ==
            IF col >= width THEN numericCols
            ELSE Loop(col + 1, IF isColumnNumeric(data, col)
                               THEN Append(numericCols, col)
                               ELSE numericCols)
    IN  Loop(0, <<>>)

\* for col := range data.Headers: ascending, appended when numeric.
detectNumericColumns(data) ==
    LET RECURSIVE Loop(_, _)
        Loop(col, numericCols) ==
            IF col >= Len(data.Headers) THEN numericCols
            ELSE Loop(col + 1, IF isColumnNumeric(data, col)
                               THEN Append(numericCols, col)
                               ELSE numericCols)
    IN  Loop(0, <<>>)

(***************************************************************************)
(* Aggregates: calculateSum ... calculateStandardDeviation                 *)
(***************************************************************************)

calculateSum(values) ==
    LET RECURSIVE Loop(_, _)
        Loop(k, sum) == IF k > Len(values) THEN sum
                        ELSE Loop(k + 1, FAdd(sum, values[k]))
    IN  Loop(1, Num(0))

calculateAverage(values) ==
    IF Len(values) = 0 THEN Num(0)
    ELSE LET s == calculateSum(values)
         IN  IF IsFinite(s) THEN Rat(s.n, s.d * Len(values)) ELSE s

\* sorted[j], sorted[j+1] = sorted[j+1], sorted[j] (j counted from 0)
Swap(sorted, j) ==
    [sorted EXCEPT ![j + 1] = sorted[j + 2], ![j + 2] = sorted[j + 1]]

\* One comparison of the inner loop of the bubble sort.
CompareSwap(sorted, j) ==
    IF FGt(sorted[j + 1], sorted[j + 2]) THEN Swap(sorted, j) ELSE sorted

\* for i := 0; i < len(sorted); i++ { for j := 0; j < len(sorted)-1-i; j++ }
BubbleSort(values) ==
    LET n == Len(values)
        RECURSIVE Inner(_, _, _)
        Inner(sorted, i, j) ==
            IF ~(j < n - 1 - i) THEN sorted
            ELSE Inner(CompareSwap(sorted, j), i, j + 1)
        RECURSIVE Outer(_, _)
        Outer(sorted, i) ==
            IF ~(i < n) THEN sorted
            ELSE Outer(Inner(sorted, i, 0), i + 1)
    IN  Outer(values, 0)

\* The return statements of calculateMedian on the sorted copy.
MiddleOf(sorted) ==
    LET n == Len(sorted)
    IN  IF n % 2 = 0
        THEN FDivInt(FAdd(sorted[(n \div 2 - 1) + 1], sorted[(n \div 2) + 1]), 2)
        ELSE sorted[(n \div 2) + 1]

calculateMedian(values) ==
    IF Len(values) = 0 THEN Num(0) ELSE MiddleOf(BubbleSort(values))

\* Variant: sorted := values, the sort is done in place.
ValuesAfterMedianInPlace(values) ==
    IF Len(values) = 0 THEN values ELSE BubbleSort(values)

\* The caller's slice after calculateMedian: the loops write sorted, which
\* make and copy set apart from values.
ValuesAfterMedian(values) == values

\* Variant: the running minimum starts at 0 and not at values[0].
calculateMinFromZero(values) ==
    IF Len(values) = 0 THEN Num(0)
    ELSE LET RECURSIVE Loop(_, _)
             Loop(k, min) == IF k > Len(values) THEN min
                             ELSE Loop(k + 1, IF FLt(values[k], min) THEN values[k] ELSE min)
         IN  Loop(1, Num(0))

calculateMin(values) ==
    IF Len(values) = 0 THEN Num(0)
    ELSE LET RECURSIVE Loop(_, _)
             Loop(k, min) == IF k > Len(values) THEN min
                             ELSE Loop(k + 1, IF FLt(values[k], min) THEN values[k] ELSE min)
         IN  Loop(2, values[1])

calculateMax(values) ==
    IF Len(values) = 0 THEN Num(0)
    ELSE LET RECURSIVE Loop(_, _)
             Loop(k, max) == IF k > Len(values) THEN max
                             ELSE Loop(k + 1, IF FGt(values[k], max) THEN values[k] ELSE max)
         IN  Loop(2, values[1])

\* Variant: the population variance, divided by n.
calculateStandardDeviationPopulation(values) ==
    IF Len(values) <= 1 THEN Num(0)
    ELSE LET mean == calculateAverage(values)
             RECURSIVE Loop(_, _)
             Loop(k, sumSquaredDiff) ==
                 IF k > Len(values) THEN sumSquaredDiff
                 ELSE LET diff == FSub(values[k], mean)
                      IN  Loop(k + 1, FAdd(sumSquaredDiff, FMul(diff, diff)))
             variance == FDivInt(Loop(1, Num(0)), Len(values))
         IN  Sqrt(variance)

calculateStandardDeviation(values) ==
    IF Len(values) <= 1 THEN Num(0)
    ELSE LET mean == calculateAverage(values)
             RECURSIVE Loop(_, _)
             Loop(k, sumSquaredDiff) ==
                 IF k > Len(values) THEN sumSquaredDiff
                 ELSE LET diff == FSub(values[k], mean)
                      IN  Loop(k + 1, FAdd(sumSquaredDiff, FMul(diff, diff)))
             variance == FDivInt(Loop(1, Num(0)), Len(values) - 1)
         IN  Sqrt(variance)

(***************************************************************************)
(* performCalculation                                                      *)
(***************************************************************************)

ErrNoValues == "no valid numeric values found"
ErrUnsupported == "unsupported operation"

\* Variant: the cell is parsed as it is, without trimming.
ExtractedUntrimmed(row, colIndex) ==
    /\ ~(colIndex >= Len(row))
    /\ TrimSpace(row[colIndex + 1]) # <<>>
    /\ ParseFloat(row[colIndex + 1]).ok

\* Variant: a cell that does not parse is kept (as the 0 ParseFloat returns
\* with its error).
ExtractedKeepsText(row, colIndex) ==
    /\ ~(colIndex >= Len(row))
    /\ TrimSpace(row[colIndex + 1]) # <<>>

\* The guard of values = append(values, val): the three continue statements
\* of the extraction loop all passed.
Extracted(row, colIndex) ==
    /\ ~(colIndex >= Len(row))
    /\ TrimSpace(row[colIndex + 1]) # <<>>
    /\ ParseFloat(TrimSpace(row[colIndex + 1])).ok

\* The slice values after the extraction loop.
ExtractValues(data, colIndex) ==
    LET kept == SelectSeq(data.Rows, LAMBDA row : Extracted(row, colIndex))
    IN  [k \in 1..Len(kept) |-> ParseFloat(TrimSpace(kept[k][colIndex + 1])).val]

\* Variant: no default case, an unknown name computes the sum.
DispatchDefaultsToSum(values, operation) ==
    CASE operation = "average" -> [value |-> calculateAverage(values), err |-> "nil"]
      [] operation = "median"  -> [value |-> calculateMedian(values), err |-> "nil"]
      [] operation = "min"     -> [value |-> calculateMin(values), err |-> "nil"]
      [] operation = "max"     -> [value |-> calculateMax(values), err |-> "nil"]
      [] operation = "count"   -> [value |-> Float64(Len(values)), err |-> "nil"]
      [] operation = "std"     -> [value |-> calculateStandardDeviation(values), err |-> "nil"]
      [] OTHER                 -> [value |-> calculateSum(values), err |-> "nil"]

\* The switch on the operation name.
Dispatch(values, operation) ==
    CASE operation = "sum"     -> [value |-> calculateSum(values), err |-> "nil"]
      [] operation = "average" -> [value |-> calculateAverage(values), err |-> "nil"]
      [] operation = "median"  -> [value |-> calculateMedian(values), err |-> "nil"]
      [] operation = "min"     -> [value |-> calculateMin(values), err |-> "nil"]
      [] operation = "max"     -> [value |-> calculateMax(values), err |-> "nil"]
      [] operation = "count"   -> [value |-> Float64(Len(values)), err |-> "nil"]
      [] operation = "std"     -> [value |-> calculateStandardDeviation(values), err |-> "nil"]
      [] OTHER                 -> [value |-> Num(0), err |-> ErrUnsupported]

\* The local slice values when performCalculation returns.
ValuesAtReturn(data, colIndex, operation) ==
    LET values == ExtractValues(data, colIndex)
    IN  IF Len(values) # 0 /\ operation = "median" THEN ValuesAfterMedian(values)
        ELSE values

\* Variant: no check for an empty slice before the switch.
performCalculationNoGuard(data, colIndex, operation) ==
    Dispatch(ExtractValues(data, colIndex), operation)

\* (value, err) of performCalculation.
performCalculation(data, colIndex, operation) ==
    LET values == ExtractValues(data, colIndex)
    IN  IF Len(values) = 0 THEN [value |-> Num(0), err |-> ErrNoValues]
        ELSE Dispatch(values, operation)

(***************************************************************************)
(* Handlers: displayHandler (upload) and calculateHandler (query)          *)
(*                                                                         *)
(* An upload request is [handler, method, form, name, size, file]: form is *)
(* "ok", "parseErr" (ParseMultipartForm fails) or "noFile" (FormFile       *)
(* fails).  A query request is [handler, method, form, cols, op].          *)
(* A response is [status, error, page].                                    *)
(***************************************************************************)

NoPage == [kind |-> "none"]

Reply(status, error, page) == [status |-> status, error |-> error, page |-> page]

\* The extension test of displayHandler on the lower-cased filename.
SupportedName(filename) ==
    \/ HasSuffix(filename, <<".", "c", "s", "v">>)
    \/ HasSuffix(filename, <<".", "x", "l", "s", "x">>)
    \/ HasSuffix(filename, <<".", "x", "l", "s">>)

\* Lines 163-177: the parser chosen by the extension.
Process(filename, file) ==
    IF HasSuffix(filename, <<".", "c", "s", "v">>) THEN processCSV(file)
    ELSE processExcel(file)

DisplayPage(data) ==
    [kind |-> "display", Headers |-> data.Headers, Rows |-> data.Rows,
     NumericCols |-> data.NumericCols, FileName |-> data.FileName,
     RowCount |-> Len(data.Rows)]

\* Variant: the row limit tested with >=.
IngestRowLimitInclusive(req) ==
    LET filename == ToLower(req.name)
        parsed   == Process(filename, req.file)
        data     == [parsed.data EXCEPT !.FileName = req.name, !.FileSize = req.size]
        numeric  == detectNumericColumns(data)
        final    == [data EXCEPT !.NumericCols = numeric]
        Out(status, error, d) == [status |-> status, error |-> error, data |-> d]
    IN  IF req.method # "POST" THEN Out(303, "redirect", ZeroSpreadsheet)
        ELSE IF req.form = "parseErr" THEN Out(400, "too large", ZeroSpreadsheet)
        ELSE IF req.form = "noFile" THEN Out(400, "no file", ZeroSpreadsheet)
        ELSE IF req.size > MaxFileSize THEN Out(400, "too large", ZeroSpreadsheet)
        ELSE IF ~SupportedName(filename) THEN Out(400, "file type", ZeroSpreadsheet)
        ELSE IF parsed.err # "nil" THEN Out(400, parsed.err, parsed.data)
        ELSE IF Len(data.Rows) >= MaxRows THEN Out(400, "too many rows", data)
        ELSE IF Len(data.Headers) = 0 THEN Out(400, "no headers", data)
        ELSE IF Len(numeric) = 0 THEN Out(400, "no numeric columns", final)
        ELSE Out(200, "", final)

\* displayHandler up to the store: the error of the return taken ("" when
\* none is) and the local variable data as it is at that point.
Ingest(req) ==
    LET filename == ToLower(req.name)
        parsed   == Process(filename, req.file)
        data     == [parsed.data EXCEPT !.FileName = req.name, !.FileSize = req.size]
        numeric  == detectNumericColumns(data)
        final    == [data EXCEPT !.NumericCols = numeric]
        Out(status, error, d) == [status |-> status, error |-> error, data |-> d]
    IN  IF req.method # "POST" THEN Out(303, "redirect", ZeroSpreadsheet)
        ELSE IF req.form = "parseErr" THEN Out(400, "too large", ZeroSpreadsheet)
        ELSE IF req.form = "noFile" THEN Out(400, "no file", ZeroSpreadsheet)
        ELSE IF req.size > MaxFileSize THEN Out(400, "too large", ZeroSpreadsheet)
        ELSE IF ~SupportedName(filename) THEN Out(400, "file type", ZeroSpreadsheet)
        ELSE IF parsed.err # "nil" THEN Out(400, parsed.err, parsed.data)
        ELSE IF Len(data.Rows) > MaxRows THEN Out(400, "too many rows", data)
        ELSE IF Len(data.Headers) = 0 THEN Out(400, "no headers", data)
        ELSE IF Len(numeric) = 0 THEN Out(400, "no numeric columns", final)
        ELSE Out(200, "", final)

\* Variant: the first table stored is kept.
StoreAndRespondKeepFirst(slot, in) ==
    IF in.status = 200
    THEN [slot |-> IF slot = ZeroSpreadsheet THEN in.data ELSE slot,
          resp |-> Reply(200, "", DisplayPage(in.data))]
    ELSE [slot |-> slot, resp |-> Reply(in.status, in.error, NoPage)]

\* Variant: the global is assigned the local data before the checks.
StoreAndRespondEarly(slot, in) ==
    IF in.status = 200
    THEN [slot |-> in.data, resp |-> Reply(200, "", DisplayPage(in.data))]
    ELSE [slot |-> in.data, resp |-> Reply(in.status, in.error, NoPage)]

\* The end of displayHandler, from the store on.
StoreAndRespond(slot, in) ==
    IF in.status = 200
    THEN [slot |-> in.data, resp |-> Reply(200, "", DisplayPage(in.data))]
    ELSE [slot |-> slot, resp |-> Reply(in.status, in.error, NoPage)]

\* displayHandler: the new value of lastSpreadsheet and the response.  The
\* global is assigned after every check has passed.
displayHandler(slot, req) == StoreAndRespond(slot, Ingest(req))

\* Variant: the scan without the break, the last match wins.
FindColumnLast(headers, colName) ==
    LET hits == {i \in 1..Len(headers) : headers[i] = colName}
    IN  IF hits = {} THEN -1
        ELSE (CHOOSE i \in hits : \A j \in hits : i >= j) - 1

\* The inner loop of calculateHandler: the first header equal to colName,
\* counted from 0, or -1.
FindColumn(headers, colName) ==
    LET hits == {i \in 1..Len(headers) : headers[i] = colName}
    IN  IF hits = {} THEN -1
        ELSE (CHOOSE i \in hits : \A j \in hits : i <= j) - 1

\* Variant: a failed computation is reported with its zero value.
CalculateStepKeepsFailures(slot, results, colName, op) ==
    LET colIndex == FindColumn(slot.Headers, colName)
        r        == performCalculation(slot, colIndex, op)
    IN  IF colIndex = -1 THEN results
        ELSE Append(results, [Col |-> colName, Value |-> r.value])

\* One iteration of the loop over cols against the table in the slot.
CalculateStep(slot, results, colName, op) ==
    LET colIndex == FindColumn(slot.Headers, colName)
        r        == performCalculation(slot, colIndex, op)
    IN  IF colIndex = -1 THEN results
        ELSE IF r.err # "nil" THEN results
        ELSE Append(results, [Col |-> colName, Value |-> r.value])

\* The whole loop: for _, colName := range cols.
CalculateLoop(slot, cols, op) ==
    LET RECURSIVE Loop(_, _)
        Loop(k, results) ==
            IF k > Len(cols) THEN results
            ELSE Loop(k + 1, CalculateStep(slot, results, cols[k], op))
    IN  Loop(1, <<>>)

\* The Operation (the title-cased name) and Timestamp of the page are
\* rendering only and left out.
ResultPage(slot, op, results) ==
    [kind |-> "results", Results |-> results, FileName |-> slot.FileName]

\* calculateHandler: the response (the global is only read).
calculateHandler(slot, req) ==
    LET results == CalculateLoop(slot, req.cols, req.op)
    IN  IF req.method # "POST" THEN Reply(303, "redirect", NoPage)
        ELSE IF req.form # "ok" THEN Reply(400, "form", NoPage)
        ELSE IF Len(req.cols) = 0 THEN Reply(400, "no columns", NoPage)
        ELSE IF req.op = "" THEN Reply(400, "no operation", NoPage)
        ELSE IF Len(slot.Headers) = 0 THEN Reply(400, "no data", NoPage)
        ELSE IF Len(results) = 0 THEN Reply(400, "no valid calculations", NoPage)
        ELSE Reply(200, "", ResultPage(slot, req.op, results))

(***************************************************************************)
(* Inputs of the server                                                    *)
(***************************************************************************)

\* Bounds of the requests drawn.
MaxBodyRows == 2
MaxQueryCols == 3

\* All sequences over S of length lo..hi.
SeqsOf(S, lo, hi) == UNION {[1..n -> S] : n \in lo..hi}

sX == <<"X">>
sY == <<"Y">>
sZ == <<"Z">>
sW == <<"W">>
sEmpty == <<>>
sCsv == <<"a", ".", "c", "s", "v">>
sCsvUpper == <<"A", ".", "C", "S", "V">>
sXlsx == <<"b", ".", "X", "L", "S", "X">>
sXls == <<"c", ".", "x", "l", "s">>
sTxt == <<"d", ".", "t", "x", "t">>
sNoDot == <<"c", "s", "v">>
sCsvBak == <<"a", ".", "c", "s", "v", ".", "t", "x", "t">>

\* Header rows as found in the file, before cleaning.
HeaderRows == {<<sX>>, <<sX, sX>>, <<<<" ", "X", " ">>, sY>>}

\* Body rows: a short one, a full one, one with text and a padded cell.
BodyRowPool == {<<<<"1">>>>, <<<<"3">>, <<"4">>>>, <<<<"x">>, <<" ", "5", " ">>>>}

OkFile(rows) == [kind |-> "ok", rows |-> rows]
BadFile(kind) == [kind |-> kind, rows |-> <<>>]

SmallFiles ==
    {OkFile(<<h>> \o body) : h \in HeaderRows, body \in SeqsOf(BodyRowPool, 0, MaxBodyRows)}

\* A header no query names and n body rows: one numeric cell (the last digit
\* of n), then rows holding one empty cell.
LongFile(n) ==
    OkFile(<<<<sW>>>> \o [i \in 1..n |->
               IF i = 1 THEN <<<<DigitChar(n % 10)>>>> ELSE <<sEmpty>>])

CsvFiles == SmallFiles \cup {OkFile(<<>>), BadFile("malformed"),
                             LongFile(MaxRows), LongFile(MaxRows + 1)}

\* Workbooks: a first row may be empty there.
ExcelFiles ==
    {OkFile(<<>>), BadFile("malformed"), BadFile("nosheet"), BadFile("badsheet"),
     OkFile(<<<<>>, <<<<"1">>>>>>), OkFile(<<<<sY>>, <<<<"2">>>>, <<<<"4">>>>>>)}

UploadReq(method, form, name, size, file) ==
    [handler |-> "display", method |-> method, form |-> form, name |-> name,
     size |-> size, file |-> file]

SampleFile == OkFile(<<<<sX>>, <<<<"1">>>>>>)

UploadRequests ==
    {UploadReq("POST", "ok", sCsv, 64, f) : f \in CsvFiles}
      \cup {UploadReq("POST", "ok", n, 64, f) : n \in {sXlsx, sXls}, f \in ExcelFiles}
      \cup {UploadReq("POST", "ok", n, 64, SampleFile) : n \in {sCsvUpper, sTxt, sNoDot, sCsvBak}}
      \cup {UploadReq("POST", "ok", sCsv, sz, SampleFile) : sz \in {MaxFileSize, MaxFileSize + 1}}
      \cup {UploadReq("GET", "ok", sCsv, 64, SampleFile)}
      \cup {UploadReq("POST", fm, sCsv, 64, SampleFile) : fm \in {"parseErr", "noFile"}}

QueryNames == {sX, sY, sZ}

\* Operations asked of one column: another supported one and an unknown one.
QueryOps == {"count", "Sum"}

QueryReq(method, form, cols, op) ==
    [handler |-> "calculate", method |-> method, form |-> form, cols |-> cols, op |-> op]

QueryRequests ==
    {QueryReq("POST", "ok", cols, "sum") : cols \in SeqsOf(QueryNames, 1, MaxQueryCols)}
      \cup {QueryReq("POST", "ok", <<n>>, op) : n \in QueryNames, op \in QueryOps}
      \cup {QueryReq("GET", "ok", <<sX>>, "sum"), QueryReq("POST", "bad", <<sX>>, "sum"),
            QueryReq("POST", "ok", <<>>, "sum"), QueryReq("POST", "ok", <<sX>>, "")}

(***************************************************************************)
(* The server: requests handled one at a time                              *)
(***************************************************************************)

NoRequest == [handler |-> "none"]
NoCall == [fn |-> "none"]
NoReturn == [done |-> FALSE]
NoQuery == [pc |-> "none"]
NoUpload == [pc |-> "none"]

Init ==
    /\ lastSpreadsheet = ZeroSpreadsheet
    /\ request = NoRequest
    /\ response = Reply(0, "", NoPage)
    /\ lastAccepted = NoRequest
    /\ overwritten = FALSE
    /\ args = NoCall
    /\ ret = NoReturn
    /\ query = NoQuery
    /\ upload = NoUpload

NoReply == Reply(0, "", NoPage)

\* The server is between requests.
Idle == request = NoRequest

\* POST /display: the whole of displayHandler.
Upload(req) ==
    /\ Idle
    /\ \E out \in {displayHandler(lastSpreadsheet, req)} :
        /\ lastSpreadsheet' = out.slot
        /\ request' = req
        /\ response' = out.resp
        /\ lastAccepted' = IF out.resp.status = 200 THEN req ELSE lastAccepted
        /\ overwritten' = (overwritten \/ (/\ out.resp.status = 200
                                           /\ lastSpreadsheet # ZeroSpreadsheet
                                           /\ out.slot # lastSpreadsheet))
        /\ UNCHANGED <<args, ret, query, upload>>

\* POST /calculate: the whole of calculateHandler.
Calculate(req) ==
    /\ Idle
    /\ request' = req
    /\ response' = calculateHandler(lastSpreadsheet, req)
    /\ UNCHANGED <<lastSpreadsheet, lastAccepted, overwritten, args, ret, query, upload>>

\* The handler has returned and the response is written; the server takes
\* the next request.
Finish ==
    /\ ~Idle
    /\ request' = NoRequest
    /\ response' = NoReply
    /\ UNCHANGED <<lastSpreadsheet, lastAccepted, overwritten, args, ret, query, upload>>

Next ==
    \/ \E req \in UploadRequests : Upload(req)
    \/ \E req \in QueryRequests : Calculate(req)
    \/ Finish

Spec == Init /\ [][Next]_vars

(***************************************************************************)
(* The pure functions, called on drawn arguments                           *)
(***************************************************************************)

\* Bounds of the arguments drawn.
MaxClassifyRows == 5
MaxComputeRows == 3
MaxMedianLen == 4
MaxParseCols == 3
MaxOperands == 4

sNaN == <<"N", "a", "N">>
sNA == <<"N", "/", "A">>

TableOf(headers, rows) == [ZeroSpreadsheet EXCEPT !.Headers = headers, !.Rows = rows]

\* Rows for classification.  Column 0: missing, number, text, blank, empty;
\* column 1: missing, missing, padded number, text, empty.
ClassifyRowPool ==
    {<<>>, <<<<"7">>>>, <<<<"x">>, <<" ", "2", " ">>>>, <<<<" ">>, sNA>>,
     <<sEmpty, sEmpty>>}

ClassifyArgs ==
    {[fn |-> "isColumnNumeric", data |-> TableOf(<<sX, sY>>, rows), colIndex |-> c] :
        rows \in SeqsOf(ClassifyRowPool, 0, MaxClassifyRows), c \in 0..1}

\* Rows for extraction: numbers in both columns, padded and fractional
\* numbers, text, NaN, blank and missing cells, and a row longer than the
\* header row.
ComputeRowPool ==
    {<<>>, <<<<"3">>>>, <<<<" ", "1", " ">>, <<"x">>>>, <<<<"x">>, <<"2">>>>,
     <<sEmpty, sNaN>>, <<<<"1", ".", "5">>, <<"\t">>, <<"9">>>>}

Operations == {"sum", "average", "median", "min", "max", "count", "std"}

OtherOperations == {"Sum", "mode", ""}

ComputeArgs ==
    {[fn |-> "performCalculation",
      data |-> [TableOf(<<sX, sY>>, rows) EXCEPT !.NumericCols = IF c = 0 THEN <<>> ELSE <<0>>],
      colIndex |-> c, operation |-> op] :
        rows \in SeqsOf(ComputeRowPool, 0, MaxComputeRows), c \in 0..2,
        op \in Operations \cup OtherOperations}

\* Cells holding small integers, one of them negative.
OperandCells == {<<"1">>, <<"2">>, <<"3">>, <<"4">>, <<"-", "2">>}

\* A table of one column X holding the cells, one per row.
ColumnTable(cells) == TableOf(<<sX>>, [i \in 1..Len(cells) |-> <<cells[i]>>])

AggregateArgs ==
    {[fn |-> "performCalculation", data |-> ColumnTable(cells), colIndex |-> 0,
      operation |-> op] :
        cells \in SeqsOf(OperandCells, 1, MaxOperands), op \in Operations}

\* Operands ParseFloat can yield.
MedianValues == {Num(1), Num(2), Num(3), NaN}

MedianArgs ==
    {[fn |-> "calculateMedian", values |-> v] : v \in SeqsOf(MedianValues, 0, MaxMedianLen)}

\* Header cells: a name, a padded name, empty, blank, and a name that
\* collides with a synthesized one.
ParseHeaderCells == {sX, <<" ", "X", "\t">>, sEmpty, <<" ", " ">>, ColumnName(2)}

ParseBodies == {<<>>, <<<<<<" ", "1">>>>>>, <<<<sX, <<"2", " ">>, sEmpty>>, <<>>, <<<<" ">>>>>>}

\* A CSV record has at least one field; a workbook row may be empty.
CsvParseFiles ==
    {OkFile(<<h>> \o body) : h \in SeqsOf(ParseHeaderCells, 1, MaxParseCols),
                             body \in {b \in ParseBodies : \A i \in 1..Len(b) : Len(b[i]) >= 1}}
      \cup {OkFile(<<>>), BadFile("malformed")}

ExcelParseFiles ==
    {OkFile(<<h>> \o body) : h \in SeqsOf(ParseHeaderCells, 0, MaxParseCols),
                             body \in ParseBodies}
      \cup {OkFile(<<>>), BadFile("malformed"), BadFile("nosheet"), BadFile("badsheet")}

ParseArgs ==
    {[fn |-> "processCSV", file |-> f] : f \in CsvParseFiles}
      \cup {[fn |-> "processExcel", file |-> f] : f \in ExcelParseFiles}

InitCalls ==
    /\ lastSpreadsheet = ZeroSpreadsheet
    /\ request = NoRequest
    /\ response = NoReply
    /\ lastAccepted = NoRequest
    /\ overwritten = FALSE
    /\ \/ args \in ClassifyArgs
       \/ args \in ComputeArgs
       \/ args \in AggregateArgs
       \/ args \in MedianArgs
       \/ args \in ParseArgs
    /\ ret = NoReturn
    /\ query = NoQuery
    /\ upload = NoUpload

Return(value) ==
    /\ ret' = [done |-> TRUE, value |-> value]
    /\ UNCHANGED <<lastSpreadsheet, request, response, lastAccepted, overwritten, args,
                   query, upload>>

Pending(fn) == args.fn = fn /\ ~ret.done

CallIsColumnNumeric ==
    /\ Pending("isColumnNumeric")
    /\ Return(isColumnNumeric(args.data, args.colIndex))

\* The table the caller holds: the one passed at first, then the one the
\* last call left.
CallerTable == IF ret.done THEN ret.value.data ELSE args.data

\* A call, the first or a later one on the same arguments: the return
\* value, with the local slice values and the caller's table beside it.
\* performCalculation assigns to no field of data and to no cell of a row.
CallPerformCalculation ==
    /\ args.fn = "performCalculation"
    /\ Return([result |-> performCalculation(CallerTable, args.colIndex, args.operation),
               values |-> ValuesAtReturn(CallerTable, args.colIndex, args.operation),
               data   |-> CallerTable])

\* The return value, with the local slice sorted beside it.
CallCalculateMedian ==
    /\ Pending("calculateMedian")
    /\ Return([result |-> calculateMedian(args.values),
               sorted |-> BubbleSort(args.values)])

CallProcessCSV ==
    /\ Pending("processCSV")
    /\ Return(processCSV(args.file))

CallProcessExcel ==
    /\ Pending("processExcel")
    /\ Return(processExcel(args.file))

NextCalls ==
    \/ CallIsColumnNumeric
    \/ CallPerformCalculation
    \/ CallCalculateMedian
    \/ CallProcessCSV
    \/ CallProcessExcel

SpecCalls == InitCalls /\ [][NextCalls]_vars

(***************************************************************************)
(* Two handlers at once.  net/http serves every request in a goroutine of  *)
(* its own, and both handlers use the global lastSpreadsheet without a     *)
(* lock.  One calculateHandler and one displayHandler run here step by     *)
(* step: a step is a stretch of code between two accesses to the global.   *)
(* The assignment lastSpreadsheet = data copies the struct field by field, *)
(* in no fixed order; a field read while it is being written returns the   *)
(* old value, the new value or a mix of their words.                       *)
(***************************************************************************)

\* Bound of the names asked by the query in flight.
MaxRaceCols == 2

\* The fields of Spreadsheet that the handlers use.
Fields == {"Headers", "Rows", "NumericCols", "FileName", "FileSize"}

\* Two files with the same two names in different columns; the four sums
\* are different.
RaceFileA == OkFile(<< <<sX, sY>>, <<<<"1">>, <<"2">>>> >>)
RaceFileB == OkFile(<< <<sY, sX>>, <<<<"3">>, <<"4">>>> >>)

\* The upload that stored the table the query starts on.
RaceUploadA == UploadReq("POST", "ok", sCsv, 64, RaceFileA)

\* The upload in flight: accepted (.xls) or rejected for its name (.txt).
RaceUploads == {UploadReq("POST", "ok", n, 64, RaceFileB) : n \in {sXls, sTxt}}

RaceQueries ==
    {QueryReq("POST", "ok", cols, "sum") : cols \in SeqsOf({sX, sY}, 1, MaxRaceCols)}

\* The outcome of a read: a value, or (torn) a slice or string header whose
\* words come from two values.
Whole(v) == [torn |-> FALSE, value |-> v]
Torn(v) == [torn |-> TRUE, value |-> v]

\* Variant: the handler reads the table as it was when the query began.
ReadFieldOfCopy(f) == {Whole(query.start[f])}

\* What a read of field f of the global can return now.
ReadField(f) ==
    IF upload.pc = "store" /\ upload.writing = f
    THEN {Whole(lastSpreadsheet[f]), Whole(upload.data[f]), Torn(lastSpreadsheet[f])}
    ELSE {Whole(lastSpreadsheet[f])}

InitRace ==
    /\ lastSpreadsheet \in {ZeroSpreadsheet, Ingest(RaceUploadA).data}
    /\ request \in RaceQueries
    /\ response = NoReply
    /\ lastAccepted = IF lastSpreadsheet = ZeroSpreadsheet THEN NoRequest ELSE RaceUploadA
    /\ overwritten = FALSE
    /\ args = NoCall
    /\ ret = NoReturn
    /\ query = [pc |-> "start", k |-> 1, colIndex |-> -1, results |-> <<>>,
                start |-> lastSpreadsheet]
    /\ \E req \in RaceUploads :
          upload = [pc |-> "start", req |-> req, data |-> ZeroSpreadsheet,
                    written |-> {}, writing |-> "none", resp |-> NoReply]

\* The position after the name at k - 1: the next name or the end of the loop.
AfterName(k) == IF k > Len(request.cols) THEN "respond" ELSE "resolve"

\* The handler has read inconsistent words: it panics or works on garbage.
QueryCrash ==
    /\ query' = [query EXCEPT !.pc = "crashed"]
    /\ response' = Reply(0, "undefined", NoPage)

\* calculateHandler up to the loop: the checks of the form pass, then
\* len(lastSpreadsheet.Headers) is read (one word: old or new).
QueryCheck ==
    /\ query.pc = "start"
    /\ \E h \in {r.value : r \in ReadField("Headers")} :
          IF Len(h) = 0
          THEN /\ query' = [query EXCEPT !.pc = "done"]
               /\ response' = Reply(400, "no data", NoPage)
          ELSE /\ query' = [query EXCEPT !.pc = "resolve"]
               /\ response' = response
    /\ UNCHANGED <<lastSpreadsheet, request, lastAccepted, overwritten, args, ret, upload>>

\* The inner loop for the name at k: range lastSpreadsheet.Headers.
QueryResolve ==
    /\ query.pc = "resolve"
    /\ \E h \in ReadField("Headers") :
          IF h.torn THEN QueryCrash
          ELSE /\ response' = response
               /\ \E colIndex \in {FindColumn(h.value, request.cols[query.k])} :
                     query' = IF colIndex = -1
                              THEN [query EXCEPT !.k = query.k + 1,
                                                 !.pc = AfterName(query.k + 1)]
                              ELSE [query EXCEPT !.colIndex = colIndex, !.pc = "compute"]
    /\ UNCHANGED <<lastSpreadsheet, request, lastAccepted, overwritten, args, ret, upload>>

\* performCalculation(lastSpreadsheet, colIndex, op): the struct is copied
\* for the call, of which Rows is used; then the append.
QueryCompute ==
    /\ query.pc = "compute"
    /\ \E rows \in ReadField("Rows") :
          IF rows.torn THEN QueryCrash
          ELSE /\ response' = response
               /\ \E r \in {performCalculation([lastSpreadsheet EXCEPT !.Rows = rows.value],
                                               query.colIndex, request.op)} :
                     query' = [query EXCEPT
                                  !.results = IF r.err # "nil" THEN query.results
                                              ELSE Append(query.results,
                                                          [Col |-> request.cols[query.k],
                                                           Value |-> r.value]),
                                  !.k = query.k + 1,
                                  !.pc = AfterName(query.k + 1)]
    /\ UNCHANGED <<lastSpreadsheet, request, lastAccepted, overwritten, args, ret, upload>>

\* After the loop: the empty result list, or the page with
\* lastSpreadsheet.FileName.
QueryRespond ==
    /\ query.pc = "respond"
    /\ IF Len(query.results) = 0
       THEN /\ query' = [query EXCEPT !.pc = "done"]
            /\ response' = Reply(400, "no valid calculations", NoPage)
       ELSE \E name \in ReadField("FileName") :
               IF name.torn THEN QueryCrash
               ELSE /\ query' = [query EXCEPT !.pc = "done"]
                    /\ response' = Reply(200, "", ResultPage([FileName |-> name.value],
                                                             request.op, query.results))
    /\ UNCHANGED <<lastSpreadsheet, request, lastAccepted, overwritten, args, ret, upload>>

\* displayHandler up to the store, on its local data.
UploadIngest ==
    /\ upload.pc = "start"
    /\ \E in \in {Ingest(upload.req)} :
          upload' = IF in.status = 200
                    THEN [upload EXCEPT !.pc = "store", !.data = in.data]
                    ELSE [upload EXCEPT !.pc = "done",
                                        !.resp = Reply(in.status, in.error, NoPage)]
    /\ UNCHANGED <<lastSpreadsheet, request, response, lastAccepted, overwritten, args,
                   ret, query>>

\* lastSpreadsheet = data: the first word of a field is written.
UploadBeginWrite(f) ==
    /\ upload.pc = "store"
    /\ upload.writing = "none"
    /\ f \notin upload.written
    /\ upload' = [upload EXCEPT !.writing = f]
    /\ UNCHANGED <<lastSpreadsheet, request, response, lastAccepted, overwritten, args,
                   ret, query>>

\* The last word of the field is written; after the last field the handler
\* renders its page from the local data.
UploadEndWrite ==
    /\ upload.pc = "store"
    /\ upload.writing # "none"
    /\ lastSpreadsheet' = [lastSpreadsheet EXCEPT ![upload.writing] = upload.data[upload.writing]]
    /\ \E written \in {upload.written \cup {upload.writing}} :
          /\ upload' = IF written = Fields
                       THEN [upload EXCEPT !.written = written, !.writing = "none",
                                           !.pc = "done",
                                           !.resp = Reply(200, "", DisplayPage(upload.data))]
                       ELSE [upload EXCEPT !.written = written, !.writing = "none"]
          /\ lastAccepted' = IF written = Fields THEN upload.req ELSE lastAccepted
          /\ overwritten' = (overwritten \/ (written = Fields /\ query.start # ZeroSpreadsheet))
    /\ UNCHANGED <<request, response, args, ret, query>>

NextRace ==
    \/ QueryCheck
    \/ QueryResolve
    \/ QueryCompute
    \/ QueryRespond
    \/ UploadIngest
    \/ \E f \in Fields : UploadBeginWrite(f)
    \/ UploadEndWrite

SpecRace == InitRace /\ [][NextRace]_vars

(***************************************************************************)
(* Properties                                                              *)
(***************************************************************************)

\* The cell of a row at 0-based index c exists and is not blank.
CellPresent(row, c) ==
    /\ c + 1 <= Len(row)
    /\ \E k \in 1..Len(row[c + 1]) : row[c + 1][k] \notin WhiteSpace

\* ... and it parses as a float.
CellParses(row, c) == CellPresent(row, c) /\ ParseFloat(TrimSpace(row[c + 1])).ok

TotalOf(rows, c) == Cardinality({i \in 1..Len(rows) : CellPresent(rows[i], c)})

NumericOf(rows, c) == Cardinality({i \in 1..Len(rows) : CellParses(rows[i], c)})

IsClassifyCall == args.fn = "isColumnNumeric" /\ ret.done

\* C1: isColumnNumeric on a column index within the headers returns true
\* exactly when total > 0 and 5 * numeric >= 4 * total, total counting the
\* rows whose cell at the index exists and is not blank, numeric those of
\* them that parse as a float.
C1_ColumnClassification ==
    IsClassifyCall =>
        LET total   == TotalOf(args.data.Rows, args.colIndex)
            numeric == NumericOf(args.data.Rows, args.colIndex)
        IN  /\ args.colIndex \in 0..(Len(args.data.Headers) - 1)
            /\ ret.value = (total > 0 /\ 5 * numeric >= 4 * total)

\* Four of five cells parse: exactly 80%, numeric.
C1_Witness ==
    /\ IsClassifyCall
    /\ TotalOf(args.data.Rows, args.colIndex) = 5
    /\ NumericOf(args.data.Rows, args.colIndex) = 4
    /\ ret.value = TRUE

IsComputeCall == args.fn = "performCalculation" /\ ret.done

\* The rows that contribute an operand for column c.
OperandRows(rows, c) == {i \in 1..Len(rows) : CellParses(rows[i], c)}

\* The k-th smallest element of a set of numbers.
KthOf(S, k) == CHOOSE i \in S : Cardinality({j \in S : j <= i}) = k

\* The parsed values of the contributing cells in row order.
OperandsOf(rows, c) ==
    [k \in 1..Cardinality(OperandRows(rows, c)) |->
        ParseFloat(TrimSpace(rows[KthOf(OperandRows(rows, c), k)][c + 1])).val]

\* C2: the operand set of performCalculation is the sequence, in row order,
\* of the parsed values of the cells at the index that exist, are not blank
\* and parse; everything else contributes nothing; count returns the size of
\* this sequence.  (The column asked for is never in NumericCols here.)
C2_OperandExtraction ==
    IsComputeCall =>
        LET operands == OperandsOf(args.data.Rows, args.colIndex)
        IN  /\ \A i \in 1..Len(args.data.NumericCols) :
                    args.data.NumericCols[i] # args.colIndex
            /\ ret.value.values = operands
            /\ (args.operation = "count" /\ Len(operands) > 0) =>
                    ret.value.result = [value |-> Num(Len(operands)), err |-> "nil"]

\* Three rows: one too short, one with text, one with a number; count is 1.
C2_Witness ==
    /\ IsComputeCall
    /\ args.operation = "count"
    /\ Len(args.data.Rows) = 3
    /\ \E i \in 1..3 : args.colIndex >= Len(args.data.Rows[i])
    /\ \E i \in 1..3 : /\ CellPresent(args.data.Rows[i], args.colIndex)
                       /\ ~CellParses(args.data.Rows[i], args.colIndex)
    /\ ret.value.result = [value |-> Num(1), err |-> "nil"]

\* C4: with no operand, performCalculation returns the no-numeric-values
\* error (and the zero value) whatever the operation name is.
C4_EmptyOperandSet ==
    (IsComputeCall /\ OperandRows(args.data.Rows, args.colIndex) = {}) =>
        ret.value.result = [value |-> Num(0), err |-> ErrNoValues]

\* count on a column of two rows without a number.
C4_Witness ==
    /\ IsComputeCall
    /\ OperandRows(args.data.Rows, args.colIndex) = {}
    /\ Len(args.data.Rows) >= 2
    /\ args.operation = "count"
    /\ ret.value.result.err = ErrNoValues

SevenOperations == {"sum", "average", "median", "min", "max", "count", "std"}

\* C5: with at least one operand, one of the seven names yields a value
\* and no error, any other name the unsupported-operation error and no value.
C5_UnsupportedOperation ==
    (IsComputeCall /\ OperandRows(args.data.Rows, args.colIndex) # {}) =>
        IF args.operation \in SevenOperations
        THEN ret.value.result.err = "nil"
        ELSE ret.value.result = [value |-> Num(0), err |-> ErrUnsupported]

\* "Sum" is not "sum".
C5_Witness ==
    /\ IsComputeCall
    /\ OperandRows(args.data.Rows, args.colIndex) # {}
    /\ args.operation = "Sum"
    /\ ret.value.result.err = ErrUnsupported

IsParseCall == args.fn \in {"processCSV", "processExcel"} /\ ret.done

\* The file yields at least one row.
HasRows(file) == file.kind = "ok" /\ Len(file.rows) >= 1

Blank(cell) == \A k \in 1..Len(cell) : cell[k] \in WhiteSpace

\* Column_<i> for a 1-based position i (one digit).
PlaceholderName(i) == <<"C", "o", "l", "u", "m", "n", "_", DigitChar(i)>>

\* C8: for a file with at least one row, both parsers succeed, the headers
\* are the cells of row 0 trimmed, a blank cell at 0-based position i
\* replaced by Column_<i+1>; no header is empty, there are as many headers
\* as cells in row 0, and the body is rows 1..end in order, untouched.
C8_HeaderSynthesis ==
    (IsParseCall /\ HasRows(args.file)) =>
        LET row0    == args.file.rows[1]
            headers == ret.value.data.Headers
            body    == ret.value.data.Rows
        IN  /\ ret.value.err = "nil"
            /\ Len(headers) = Len(row0)
            /\ \A i \in 1..Len(row0) :
                  /\ headers[i] # <<>>
                  /\ headers[i] = IF Blank(row0[i]) THEN PlaceholderName(i)
                                  ELSE TrimSpace(row0[i])
            /\ Len(body) = Len(args.file.rows) - 1
            /\ \A j \in 1..Len(body) : body[j] = args.file.rows[j + 1]

\* A CSV whose row 0 is a padded name, a blank and an empty cell, with a
\* body cell that keeps its leading space.
C8_Witness ==
    /\ IsParseCall
    /\ args.fn = "processCSV"
    /\ HasRows(args.file)
    /\ args.file.rows[1] = <<<<" ", "X", "\t">>, <<" ", " ">>, <<>>>>
    /\ ret.value.data.Headers = <<<<"X">>, ColumnName(2), ColumnName(3)>>
    /\ ret.value.data.Rows = <<<<<<" ", "1">>>>>>

IsMedianCall == args.fn = "calculateMedian" /\ ret.done

\* No element is greater than a later one.
Ascending(s) == \A i, j \in 1..Len(s) : i < j => ~FGt(s[i], s[j])

Occurrences(s, x) == Cardinality({i \in 1..Len(s) : s[i] = x})

IsPermutation(s, t) ==
    /\ Len(s) = Len(t)
    /\ \A i \in 1..Len(t) : Occurrences(s, t[i]) = Occurrences(t, t[i])

\* The middle of a sequence: one element, or the mean of two.
MiddleElement(s) ==
    IF Len(s) % 2 = 1 THEN s[(Len(s) + 1) \div 2]
    ELSE FDivInt(FAdd(s[Len(s) \div 2], s[Len(s) \div 2 + 1]), 2)

\* C10: for every non-empty operand set the bubble sort yields an ascending
\* permutation of it, and the median is the middle element of that (the mean
\* of the two middle elements for an even size).
C10_Median ==
    (IsMedianCall /\ Len(args.values) >= 1) =>
        /\ IsPermutation(ret.value.sorted, args.values)
        /\ Ascending(ret.value.sorted)
        /\ ret.value.result = MiddleElement(ret.value.sorted)

\* C10 restricted to operand sets without NaN (every value finite here).
C10_MedianOfOrderedValues ==
    (IsMedianCall /\ Len(args.values) >= 1
       /\ \A i \in 1..Len(args.values) : ~IsNaN(args.values[i])) =>
        /\ IsPermutation(ret.value.sorted, args.values)
        /\ Ascending(ret.value.sorted)
        /\ ret.value.result = MiddleElement(ret.value.sorted)

IsQuery == request.handler = "calculate"

\* A query whose form was read: cols and operation are known.
WellFormedQuery == IsQuery /\ request.method = "POST" /\ request.form = "ok"

Matches(name) ==
    {i \in 1..Len(lastSpreadsheet.Headers) : lastSpreadsheet.Headers[i] = name}

Resolves(name) == Matches(name) # {}

\* The lowest matching position, 1-based.
LowestMatch(name) == CHOOSE i \in Matches(name) : \A j \in Matches(name) : i <= j

\* The computation on the column a resolving name stands for.
Computed(name) ==
    performCalculation(lastSpreadsheet, LowestMatch(name) - 1, request.op)

Succeeds(name) == Resolves(name) /\ Computed(name).err = "nil"

\* The positions of the request whose name resolves and computes.
KeptPositions == {k \in 1..Len(request.cols) : Succeeds(request.cols[k])}

ExpectedResults ==
    [j \in 1..Cardinality(KeptPositions) |->
        LET name == request.cols[KthOf(KeptPositions, j)]
        IN  [Col |-> name, Value |-> Computed(name).value]]

\* C3: the result list of a query holds one (name, value) pair for each
\* requested name that resolves and computes, in request order and with
\* repetitions; the other names are dropped; the request is rejected
\* exactly when no pair is left.
C3_BatchQuery ==
    WellFormedQuery =>
        IF KeptPositions = {}
        THEN response.status = 400 /\ response.page = NoPage
        ELSE /\ response.status = 200
             /\ response.page.Results = ExpectedResults

\* Three names asked, the second dropped, the first and third the same.
C3_Witness ==
    /\ WellFormedQuery
    /\ Len(request.cols) = 3
    /\ request.cols[1] = request.cols[3]
    /\ KeptPositions = {1, 3}
    /\ response.status = 200
    /\ Len(response.page.Results) = 2
    /\ response.page.Results[1] = response.page.Results[2]

\* A step in which an upload is answered with anything but the page.
RejectedUpload ==
    /\ Idle
    /\ request'.handler = "display"
    /\ response'.status # 200

\* A table that passed every check of the upload.
Complete(t) ==
    /\ Len(t.Headers) > 0
    /\ Len(t.NumericCols) > 0
    /\ Len(t.Rows) <= MaxRows

\* C6: a rejected upload leaves lastSpreadsheet as it was before the
\* request, and the slot never holds a table that failed a check.
C6_FailedIngestionStoresNothing ==
    [][/\ RejectedUpload => lastSpreadsheet' = lastSpreadsheet
       /\ lastSpreadsheet' = ZeroSpreadsheet \/ Complete(lastSpreadsheet')]_vars

\* The table of the most recent successful upload, none before the first.
CurrentTable ==
    IF lastAccepted = NoRequest THEN ZeroSpreadsheet ELSE Ingest(lastAccepted).data

\* An upload with a header and no numeric column is rejected after parsing
\* while a table is stored; the stored table is still there.
C6_Witness ==
    /\ request.handler = "display"
    /\ response.status = 400
    /\ response.error = "no numeric columns"
    /\ lastSpreadsheet # ZeroSpreadsheet
    /\ lastSpreadsheet = CurrentTable

\* C7: the slot holds the table of the most recent successful upload, and
\* a query is answered from that table.
C7_MostRecentTable ==
    \E table \in {CurrentTable} :
        /\ lastSpreadsheet = table
        /\ IsQuery => response = calculateHandler(table, request)

\* A query answered after one table has replaced another.
C7_Witness ==
    /\ overwritten
    /\ IsQuery
    /\ response.status = 200
    /\ lastSpreadsheet = CurrentTable

\* C9: a name that several headers carry stands for the lowest of their
\* columns: its value is computed from that column, and when that column
\* has no result the name is dropped, whatever the later columns hold.
C9_DuplicateHeaders ==
    WellFormedQuery =>
        \A k \in 1..Len(request.cols) :
            LET name == request.cols[k]
            IN  Cardinality(Matches(name)) >= 2 =>
                    IF Computed(name).err = "nil"
                    THEN /\ response.status = 200
                         /\ \A r \in 1..Len(response.page.Results) :
                               response.page.Results[r].Col = name =>
                                   response.page.Results[r].Value = Computed(name).value
                    ELSE response.status = 200 =>
                             \A r \in 1..Len(response.page.Results) :
                                 response.page.Results[r].Col # name

\* Two columns named X holding different sums: the first one is reported.
C9_Witness ==
    /\ WellFormedQuery
    /\ request.op = "sum"
    /\ request.cols = <<sX>>
    /\ lastSpreadsheet.Headers = <<sX, sX>>
    /\ performCalculation(lastSpreadsheet, 1, "sum").err = "nil"
    /\ performCalculation(lastSpreadsheet, 1, "sum") # performCalculation(lastSpreadsheet, 0, "sum")
    /\ response.status = 200
    /\ response.page.Results = <<[Col |-> sX, Value |-> performCalculation(lastSpreadsheet, 0, "sum").value]>>

\* C9, the dropped name: the first X has no number, the second has.
C9_WitnessDropped ==
    /\ WellFormedQuery
    /\ request.cols = <<sX>>
    /\ lastSpreadsheet.Headers = <<sX, sX>>
    /\ performCalculation(lastSpreadsheet, 0, request.op).err = ErrNoValues
    /\ performCalculation(lastSpreadsheet, 1, request.op).err = "nil"
    /\ response.status = 400

\* Every operand is an integer.
IntegerOperands(v) == \A i \in 1..Len(v) : v[i].d = 1

\* The integer sum of integer operands, in row order starting from 0.
RECURSIVE SumUpTo(_, _)
SumUpTo(v, k) == IF k = 0 THEN 0 ELSE SumUpTo(v, k - 1) + v[k].n

\* The result of the call, as a value without error.
Returned(x) == ret.value.result = [value |-> x, err |-> "nil"]

\* r is the quotient a / b of integers (b > 0).
IsQuotient(r, a, b) == r.d > 0 /\ r.n * b = a * r.d

\* C11: on a non-empty set v of n integer operands, sum returns the sum of
\* v, average a value equal to sum(v)/n, min and max an element of v that
\* no element is below (above), count n; on [1,2,3,4] these are 10, 5/2, 1,
\* 4 and 4.
C11_BasicAggregates ==
    (IsComputeCall /\ Len(ret.value.values) >= 1 /\ IntegerOperands(ret.value.values)) =>
        LET v   == ret.value.values
            n   == Len(v)
            sum == SumUpTo(v, n)
            r   == ret.value.result
            four == v = <<Num(1), Num(2), Num(3), Num(4)>>
        IN  /\ args.operation = "sum" =>
                  Returned(Num(sum)) /\ (four => Returned(Num(10)))
            /\ args.operation = "average" =>
                  /\ r.err = "nil" /\ IsQuotient(r.value, sum, n)
                  /\ four => Returned([n |-> 5, d |-> 2])
            /\ args.operation = "min" =>
                  /\ r.err = "nil"
                  /\ \E i \in 1..n : r.value = v[i]
                  /\ \A i \in 1..n : r.value.n <= v[i].n
                  /\ four => Returned(Num(1))
            /\ args.operation = "max" =>
                  /\ r.err = "nil"
                  /\ \E i \in 1..n : r.value = v[i]
                  /\ \A i \in 1..n : r.value.n >= v[i].n
                  /\ four => Returned(Num(4))
            /\ args.operation = "count" =>
                  Returned(Num(n)) /\ (four => Returned(Num(4)))

\* The average of the cells 1, 2, 3, 4 is 5/2.
C11_Witness ==
    /\ IsComputeCall
    /\ args.operation = "average"
    /\ ret.value.values = <<Num(1), Num(2), Num(3), Num(4)>>
    /\ Returned([n |-> 5, d |-> 2])

\* The sum of the squares of integer operands.
RECURSIVE SquaresUpTo(_, _)
SquaresUpTo(v, k) == IF k = 0 THEN 0 ELSE SquaresUpTo(v, k - 1) + v[k].n * v[k].n

\* The sum of squared deviations from the mean of n integers, times n:
\* n * sum (v[i] - S/n)^2 = n * Q - S * S.
DeviationsTimesN(v) ==
    Len(v) * SquaresUpTo(v, Len(v)) - SumUpTo(v, Len(v)) * SumUpTo(v, Len(v))

\* r is the non-negative square root of the quotient a / b (a >= 0, b > 0):
\* a rational whose square is a / b, or the root sign over a value equal to
\* a / b.
IsRootOfQuotient(r, a, b) ==
    IF "sqrt" \in DOMAIN r
    THEN IsQuotient(r.sqrt, a, b)
    ELSE r.d > 0 /\ r.n >= 0 /\ r.n * r.n * b = a * r.d * r.d

IsStdCall == IsComputeCall /\ args.operation = "std"

\* C12 as stated: 0 and no error for every operand set of size n <= 1, the
\* empty one included.
C12_StdOfAtMostOne ==
    (IsStdCall /\ Len(ret.value.values) <= 1) => Returned(Num(0))

\* C12: std on one integer operand returns 0 and no error; on none,
\* performCalculation returns the no-numeric-values error before std is
\* reached; on n >= 2 operands it returns the square root of the sum of
\* squared deviations from the mean divided by n - 1.
C12_StandardDeviation ==
    (IsStdCall /\ IntegerOperands(ret.value.values)) =>
        LET v == ret.value.values
            n == Len(v)
        IN  /\ n = 0 => ret.value.result = [value |-> Num(0), err |-> ErrNoValues]
            /\ n = 1 => Returned(Num(0))
            /\ n >= 2 =>
                  /\ ret.value.result.err = "nil"
                  /\ IsRootOfQuotient(ret.value.result.value,
                                      DeviationsTimesN(v), n * (n - 1))

\* The cells 1, 2, 3, 4: the variance is 5/3 and the result its root.
C12_Witness ==
    /\ IsStdCall
    /\ ret.value.values = <<Num(1), Num(2), Num(3), Num(4)>>
    /\ Returned([sqrt |-> [n |-> 5, d |-> 3]])

IsNumericSetOf(cols, t) ==
    /\ \A k \in 1..Len(cols) :
          /\ cols[k] \in 0..(Len(t.Headers) - 1)
          /\ isColumnNumeric(t, cols[k])
    /\ \A c \in 0..(Len(t.Headers) - 1) :
          isColumnNumeric(t, c) => \E k \in 1..Len(cols) : cols[k] = c
    /\ \A k, l \in 1..Len(cols) : k < l => cols[k] < cols[l]

\* A step that handles an upload up to the classification: it is accepted,
\* or rejected for having no numeric column.
ClassifyingUpload ==
    /\ Idle
    /\ request'.handler = "display"
    /\ response'.status = 200 \/ response'.error = "no numeric columns"

\* C14: the numeric-column set computed for an uploaded table is exactly
\* the ascending list of the header columns that isColumnNumeric accepts
\* (empty when the upload is rejected for it), it is the set stored with the
\* table, and a query leaves the stored set as it is.
C14_NumericColumnSet ==
    [][/\ ClassifyingUpload =>
             \E t \in {Ingest(request').data} :
                 /\ IsNumericSetOf(t.NumericCols, t)
                 /\ (response'.status = 200) = (t.NumericCols # <<>>)
                 /\ response'.status = 200 =>
                        lastSpreadsheet'.NumericCols = t.NumericCols
       /\ request'.handler = "calculate" =>
             lastSpreadsheet'.NumericCols = lastSpreadsheet.NumericCols]_vars

\* A query is answered from a table with the one header X whose rows also
\* hold a second, numeric cell: the set is column 0 alone.
C14_Witness ==
    /\ IsQuery
    /\ response.status = 200
    /\ lastSpreadsheet.Headers = <<sX>>
    /\ \E i \in 1..Len(lastSpreadsheet.Rows) : Len(lastSpreadsheet.Rows[i]) = 2
    /\ isColumnNumeric(lastSpreadsheet, 1)
    /\ lastSpreadsheet.NumericCols = <<0>>

\* An upload whose form, size and name pass and whose file is read.
ParsedUpload ==
    /\ request.handler = "display"
    /\ request.method = "POST"
    /\ request.form = "ok"
    /\ request.size <= MaxFileSize
    /\ SupportedName(ToLower(request.name))
    /\ request.file.kind = "ok"

\* C16: the slot is empty exactly as long as no upload has succeeded, and a
\* query is then rejected; otherwise it holds a table with a header, a
\* numeric column and at most MaxRows body rows.  An upload with more than
\* MaxRows body rows is rejected for it, one with exactly MaxRows is not.
C16_SlotInvariant ==
    /\ (lastSpreadsheet = ZeroSpreadsheet) = (lastAccepted = NoRequest)
    /\ (lastSpreadsheet = ZeroSpreadsheet /\ IsQuery) => response.status # 200
    /\ lastSpreadsheet # ZeroSpreadsheet => Complete(lastSpreadsheet)
    /\ (ParsedUpload /\ Len(request.file.rows) - 1 > MaxRows) =>
          response.status = 400 /\ response.error = "too many rows"
    /\ (ParsedUpload /\ Len(request.file.rows) - 1 = MaxRows) =>
          response.error # "too many rows"

\* The upload of a header and exactly MaxRows body rows is accepted and
\* stored.
C16_Witness ==
    /\ ParsedUpload
    /\ Len(request.file.rows) - 1 = MaxRows
    /\ response.status = 200
    /\ Len(lastSpreadsheet.Rows) = MaxRows

\* C16, the other side of the limit: MaxRows + 1 body rows.
C16_WitnessRejected ==
    /\ ParsedUpload
    /\ Len(request.file.rows) - 1 = MaxRows + 1
    /\ response.status = 400

\* The column of the call is in the numeric-column set of its table.
ClassifiedNumeric ==
    \E k \in 1..Len(detectNumericColumns(args.data)) :
        detectNumericColumns(args.data)[k] = args.colIndex

\* C17: on a column that detectNumericColumns places in the set,
\* performCalculation never returns the no-numeric-values error, each of
\* the seven operations returns a value, and count returns the number of
\* cells the classifier counted as numeric.
C17_ClassifierEngineAgree ==
    (IsComputeCall /\ ClassifiedNumeric) =>
        /\ ret.value.result.err # ErrNoValues
        /\ Len(ret.value.values) >= 1
        /\ args.operation \in SevenOperations => ret.value.result.err = "nil"
        /\ args.operation = "count" =>
              Returned(Num(Cardinality(NumericRows(args.data, args.colIndex))))

\* count on a numeric column of three rows, one cell padded and one blank
\* or missing: 2.
C17_Witness ==
    /\ IsComputeCall
    /\ ClassifiedNumeric
    /\ args.operation = "count"
    /\ Len(args.data.Rows) = 3
    /\ \E i \in 1..3 : /\ CellPresent(args.data.Rows[i], args.colIndex)
                       /\ args.data.Rows[i][args.colIndex + 1][1] \in WhiteSpace
    /\ Cardinality(NumericRows(args.data, args.colIndex)) = 2
    /\ Returned(Num(2))


\* The concurrent upload was accepted and its store is complete.
StoreDone == upload.pc = "done" /\ upload.written = Fields

\* The query in flight began on a stored table, which the upload replaced.
Replaced == StoreDone /\ query.start # ZeroSpreadsheet /\ upload.data # query.start

\* C15: the handlers share the global table with no synchronization, so a
\* batch query in flight observes a table stored meanwhile: every name it
\* takes up after the store is complete is resolved against the headers of
\* the new table and computed on the rows of the new table, the page
\* carries the filename of the new table, and no step after the store
\* reads a mix of the two tables.
C15_RaceOnSlot ==
    [][StoreDone =>
          /\ query'.pc # "crashed"
          /\ (query.pc = "resolve" /\ query' # query) =>
                \E c \in {FindColumn(upload.data.Headers, request.cols[query.k])} :
                   IF c = -1
                   THEN /\ query'.pc # "compute"
                        /\ query'.k = query.k + 1
                        /\ query'.results = query.results
                   ELSE /\ query'.pc = "compute"
                        /\ query'.colIndex = c
          /\ (query.pc = "compute" /\ query' # query) =>
                \E r \in {performCalculation(upload.data, query.colIndex, request.op)} :
                   query'.results = IF r.err # "nil" THEN query.results
                                    ELSE Append(query.results,
                                                [Col |-> request.cols[query.k],
                                                 Value |-> r.value])
          /\ (query.pc = "respond" /\ query' # query /\ response'.status = 200) =>
                response'.page.FileName = upload.data.FileName]_vars

\* The value that operation op gives for the column named name of table t.
ValueIn(t, name, op) == performCalculation(t, FindColumn(t.Headers, name), op).value

\* One page of two tables: the query asked for X and Y on the first table,
\* the store fell between the two names, and the page shows the X of the
\* first table, the Y of the second and the filename of the second.
C15_Witness ==
    /\ query.pc = "done"
    /\ Replaced
    /\ request.cols = <<sX, sY>>
    /\ response.status = 200
    /\ response.page.Results =
          <<[Col |-> sX, Value |-> ValueIn(query.start, sX, request.op)],
            [Col |-> sY, Value |-> ValueIn(upload.data, sY, request.op)]>>
    /\ ValueIn(query.start, sY, request.op) # ValueIn(upload.data, sY, request.op)
    /\ response.page.FileName = upload.data.FileName
    /\ response.page.FileName # query.start.FileName

\* The store fell between the resolution and the computation of one name:
\* X was found in its column of the first table and summed over that
\* column of the second, which holds Y.
C15_WitnessMixedName ==
    /\ query.pc = "done"
    /\ Replaced
    /\ request.cols = <<sX>>
    /\ response.status = 200
    /\ response.page.Results =
          <<[Col |-> sX, Value |-> ValueIn(upload.data, sY, request.op)]>>

\* A read fell within the write of the field it reads.
C15_WitnessTornRead == query.pc = "crashed" /\ upload.pc = "store"

====
